---------------------------- MODULE Spec2Model ----------------------------
(***************************************************************************)
(* Model of src/app.py, the AIME pricing calculator: one run of the        *)
(* script is fetch_pricing_data (live catalog or fallback table), the      *)
(* per-agent configuration loop, the pricing breakdown loop and the total. *)
(*                                                                         *)
(* Numbers.  Per-token prices are integers in units of 5e-8 dollar         *)
(* (0.00000045 = 9 units), token counts produced by the 0.7/0.3 split are  *)
(* integers in tenths of a token, and costs are integers in units of       *)
(* 5e-9 dollar (tenth of a token times price unit).  The arithmetic of     *)
(* the script is therefore modelled exactly, as rational arithmetic; the   *)
(* rounding of IEEE doubles (below 1e-9 on these magnitudes) is not.       *)
(***************************************************************************)
EXTENDS Integers, Sequences, FiniteSets, TLC

VARIABLES
    pc,                      \* position of the script
    response,                \* outcome of requests.get, in flight until fetch_pricing_data returns
    idx,                     \* position of "for model in models" (1-based)
    pricing_data,            \* dict slug -> [prompt, completion]
    available_models,        \* list of slugs
    notice,                  \* the st.error / st.warning / st.success call of the fetch
    raised,                  \* exception that left the script, "none" if none
    num_teachers,
    agent_configs,           \* insertion-ordered dict, one record per configured agent
    default_model_idx,       \* 0-based, as computed for the agent configured last
    total_cost_per_teacher,
    breakdown,               \* the per-agent figures handed to st.write
    total_cost_all_teachers

vars == <<pc, response, idx, pricing_data, available_models, notice, raised,
          num_teachers, agent_configs, default_model_idx,
          total_cost_per_teacher, breakdown, total_cost_all_teachers>>

----------------------------------------------------------------------------
(* Bounds *)

MaxModels == 2        \* longest "data" list of a catalog response
MaxTeachers == 2      \* largest value typed into "Number of Teachers"
MaxOverrides == 1     \* agents whose widgets the user moved off their defaults

----------------------------------------------------------------------------
(* JSON values of the catalog response *)

Absent == "<absent>"  \* the key is not in the object

EmptyDict == [s \in {} |-> [prompt |-> 0, completion |-> 0]]

\* slug values of the descriptors; Absent makes model.get("slug", "unknown") default
FetchSlugs == {"qwen/qwen3-8b", Absent}

PromptFields == {Absent, "", "0", "abc", "0.00003", "-0.00001"}
CompletionFields == {"0", "abc", "0.00006"}

Descriptor(k, s, e, p, pp, cp) ==
    [kind |-> k, slug |-> s, endpoint |-> e, pricing |-> p, prompt |-> pp, completion |-> cp]

\* a descriptor that is a JSON string instead of an object
StringDescriptor == Descriptor("string", Absent, "absent", "absent", Absent, Absent)

DescriptorsOver(slugs, prompts, completions) ==
    {Descriptor("object", s, e, "absent", Absent, Absent) :
        s \in slugs, e \in {"absent", "null", "empty"}}
    \cup {Descriptor("object", s, "object", p, Absent, Absent) :
        s \in slugs, p \in {"absent", "null"}}
    \cup {Descriptor("object", s, "object", "object", pp, cp) :
        s \in slugs, pp \in prompts, cp \in completions}

FetchDescriptors ==
    {StringDescriptor} \cup DescriptorsOver(FetchSlugs, PromptFields, CompletionFields)

SeqsUpTo(S, n) == UNION {[1..k -> S] : k \in 0..n}

Response(o, t, d, m) == [outcome |-> o, top |-> t, data |-> d, models |-> m]

NoResponse == Response("none", "none", "absent", <<>>)

\* requests.get / raise_for_status / response.json() raising a RequestException
\* (the JSONDecodeError of response.json() is one since requests 2.27)
FailureOutcomes == {"timeout", "connection_error", "http_error", "invalid_json"}

ResponsesOver(descriptors) ==
    {Response(o, "none", "absent", <<>>) : o \in FailureOutcomes}
    \cup {Response("ok", "array", "absent", <<>>)}
    \cup {Response("ok", "object", d, <<>>) : d \in {"absent", "null", "number"}}
    \cup {Response("ok", "object", "list", m) : m \in SeqsUpTo(descriptors, MaxModels)}

FetchResponses == ResponsesOver(FetchDescriptors)

----------------------------------------------------------------------------
(* fetch_pricing_data and use_fallback_pricing *)

FallbackPricing ==
    ("google/gemma-2-9b" :> [prompt |-> 0, completion |-> 0])
    @@ ("qwen/qwen3-coder-flash" :> [prompt |-> 9, completion |-> 9])
    @@ ("openai/gpt-4" :> [prompt |-> 600, completion |-> 1200])
    @@ ("openai/gpt-3.5-turbo" :> [prompt |-> 10, completion |-> 30])
    @@ ("anthropic/claude-3-sonnet" :> [prompt |-> 60, completion |-> 300])
    @@ ("meta-llama/llama-3.1-8b" :> [prompt |-> 4, completion |-> 4])

FallbackModels ==
    <<"google/gemma-2-9b", "qwen/qwen3-coder-flash", "openai/gpt-4",
      "openai/gpt-3.5-turbo", "anthropic/claude-3-sonnet", "meta-llama/llama-3.1-8b">>

use_fallback_pricing ==
    [pricing_data |-> FallbackPricing, available_models |-> FallbackModels]

\* float(s) that reads an unparseable string as 0.0 instead of raising ValueError
ToFloat_lenient(s) ==
    CASE s = "0" -> [ok |-> TRUE, value |-> 0]
      [] s = "0.00003" -> [ok |-> TRUE, value |-> 600]
      [] s = "0.00006" -> [ok |-> TRUE, value |-> 1200]
      [] s = "-0.00001" -> [ok |-> TRUE, value |-> 0 - 200]
      [] OTHER -> [ok |-> TRUE, value |-> 0]

\* float(s) on the price strings of the model, in price units
ToFloat(s) ==
    CASE s = "0" -> [ok |-> TRUE, value |-> 0]
      [] s = "0.00003" -> [ok |-> TRUE, value |-> 600]
      [] s = "0.00006" -> [ok |-> TRUE, value |-> 1200]
      [] s = "-0.00001" -> [ok |-> TRUE, value |-> 0 - 200]
      [] OTHER -> [ok |-> FALSE, value |-> 0]

\* pricing.get(key, "0") followed by "float(x) if x else 0.0"
PriceValue(field) ==
    LET x == IF field = Absent THEN "0" ELSE field
    IN IF x = "" THEN [ok |-> TRUE, value |-> 0] ELSE ToFloat(x)

SlugOf(model) == IF model.slug = Absent THEN "unknown" ELSE model.slug

\* the try block that also drops models whose two prices are zero
PricingParsed_nonzero(prompt_float, completion_float) ==
    /\ prompt_float.ok /\ completion_float.ok
    /\ (prompt_float.value # 0 \/ completion_float.value # 0)

\* lines 35-38 leave the try block without ValueError / TypeError
PricingParsed(prompt_float, completion_float) == prompt_float.ok /\ completion_float.ok

DictSet(d, k, v) == [s \in DOMAIN d \cup {k} |-> IF s = k THEN v ELSE d[s]]

\* one iteration of "for model in models"
ProcessModel(model, pd, am) ==
    LET same == [pricing_data |-> pd, available_models |-> am, raised |-> "none"]
        prompt_float == PriceValue(model.prompt)
        completion_float == PriceValue(model.completion)
    IN CASE model.kind # "object" -> [same EXCEPT !.raised = "AttributeError"]
         [] model.kind = "object" /\ model.endpoint # "object" -> same
         [] model.kind = "object" /\ model.endpoint = "object" /\ model.pricing = "null" ->
                [same EXCEPT !.raised = "AttributeError"]
         [] OTHER ->
                IF PricingParsed(prompt_float, completion_float)
                THEN [pricing_data |->
                          DictSet(pd, SlugOf(model),
                                  [prompt |-> prompt_float.value,
                                   completion |-> completion_float.value]),
                      available_models |-> Append(am, SlugOf(model)),
                      raised |-> "none"]
                ELSE same

\* a returned (pricing_data, available_models) pair with the st.* call made before it
WithNotice(pair, msg) ==
    [pricing_data |-> pair.pricing_data, available_models |-> pair.available_models,
     notice |-> msg]

\* lines 52-59 without the "if not available_models" fallback
FetchResult_nofallback(pd, am) ==
    [pricing_data |-> pd, available_models |-> am, notice |-> "success"]

\* "if not available_models: return use_fallback_pricing()", else the live pair
FetchResult(pd, am) ==
    IF am = <<>>
    THEN WithNotice(use_fallback_pricing, "warning_no_valid_pricing")
    ELSE [pricing_data |-> pd, available_models |-> am, notice |-> "success"]

UnchangedForm ==
    UNCHANGED <<num_teachers, agent_configs, default_model_idx,
                total_cost_per_teacher, breakdown, total_cost_all_teachers>>

Return(result) ==
    /\ pc' = "fetched"
    /\ response' = NoResponse
    /\ idx' = 0
    /\ pricing_data' = result.pricing_data
    /\ available_models' = result.available_models
    /\ notice' = result.notice
    /\ raised' = "none"

Raise(exception) ==
    /\ pc' = "crashed"
    /\ raised' = exception
    /\ UNCHANGED <<response, idx, pricing_data, available_models, notice>>

\* lines 13-22 and 61-64: the outcome of the GET, the JSON body and data.get("data", [])
FetchRequest ==
    /\ pc = "fetch"
    /\ CASE response.outcome \in FailureOutcomes ->
                Return(WithNotice(use_fallback_pricing, "error_fetch_failed"))
         [] response.outcome = "ok" /\ response.top # "object" ->
                Raise("AttributeError")
         [] response.outcome = "ok" /\ response.top = "object" /\ response.data = "number" ->
                Raise("TypeError")
         [] response.outcome = "ok" /\ response.top = "object" /\ response.data # "number"
                /\ response.models = <<>> ->
                Return(WithNotice(use_fallback_pricing, "error_no_models"))
         [] OTHER ->
                /\ pc' = "models_loop"
                /\ idx' = 1
                /\ pricing_data' = EmptyDict
                /\ available_models' = <<>>
                /\ UNCHANGED <<response, notice, raised>>
    /\ UnchangedForm

\* lines 24-49
FetchModel ==
    /\ pc = "models_loop"
    /\ idx <= Len(response.models)
    /\ LET r == ProcessModel(response.models[idx], pricing_data, available_models)
       IN IF r.raised # "none"
          THEN Raise(r.raised)
          ELSE /\ pricing_data' = r.pricing_data
               /\ available_models' = r.available_models
               /\ idx' = idx + 1
               /\ UNCHANGED <<pc, response, notice, raised>>
    /\ UnchangedForm

\* lines 51-59
FetchFinish ==
    /\ pc = "models_loop"
    /\ idx > Len(response.models)
    /\ Return(FetchResult(pricing_data, available_models))
    /\ UnchangedForm

\* the script before line 135 runs
Init ==
    /\ pc = "start"
    /\ response = NoResponse
    /\ idx = 0
    /\ pricing_data = EmptyDict
    /\ available_models = <<>>
    /\ notice = "none"
    /\ raised = "none"
    /\ num_teachers = 0
    /\ agent_configs = <<>>
    /\ default_model_idx = 0
    /\ total_cost_per_teacher = 0
    /\ breakdown = <<>>
    /\ total_cost_all_teachers = 0

\* line 12: requests.get answers with one of the given outcomes
HttpGet(responses) ==
    /\ pc = "start"
    /\ response' \in responses
    /\ pc' = "fetch"
    /\ UNCHANGED <<idx, pricing_data, available_models, notice, raised>>
    /\ UnchangedForm

GetCatalog == HttpGet(FetchResponses)

NextFetch == GetCatalog \/ FetchRequest \/ FetchModel \/ FetchFinish

SpecFetch == Init /\ [][NextFetch]_vars

----------------------------------------------------------------------------
(* The form: number of teachers and the agent configuration loop *)

Preset(a, u, t, m) ==
    [agent |-> a, default_uses_per_month |-> u, tokens_per_use |-> t, default_model |-> m]

AGENT_USAGE_PATTERNS ==
    <<Preset("Curriculum Mapping Agent", 1, 1000, "google/gemma-3-12b-it"),
      Preset("Content Sourcing Agent", 1, 5000, "google/gemma-3-12b-it"),
      Preset("Planner Agent", 4, 4000, "qwen/qwen3-8b"),
      Preset("Lesson Designer", 4, 5000, "qwen/qwen3-8b"),
      Preset("Assessment Agent", 4, 5000, "qwen/qwen3-8b"),
      Preset("Feedback Agent", 4, 1000, "google/gemma-3-12b-it"),
      Preset("Slide Generation Agent", 4, 4000, "openai/gpt-4.1")>>

NumAgents == Len(AGENT_USAGE_PATTERNS)

\* values the user types into "Uses per month" and "Tokens per use"
UserUses == {2}
UserTokens == {15}

Elements(list) == {list[i] : i \in 1..Len(list)}

\* list.index(x), 0-based
IndexOf(list, x) ==
    (CHOOSE i \in 1..Len(list) : list[i] = x /\ \A j \in 1..(i - 1) : list[j] # x) - 1

\* the default index that never looks the preset's model up
DefaultModelIdx_first(config, am) == 0

\* lines 147-148
DefaultModelIdx(config, am) ==
    IF config.default_model \in Elements(am) THEN IndexOf(am, config.default_model) ELSE 0

\* the preselected model taken from the preset without looking at the list
DefaultModel_preset(config, am) == config.default_model

\* the option st.selectbox preselects: options[index]
DefaultModel(config, am) == am[DefaultModelIdx(config, am) + 1]

\* st.selectbox returns the preselected option or an option the user picked
SelectboxValues(config, am) == {DefaultModel(config, am)} \cup Elements(am)

\* st.number_input(min_value=..., value=...) returns the default or what the user typed
NumberInputValues(min_value, value, typed) == {v \in {value} \cup typed : v >= min_value}

AgentConfig(a, m, u, t) ==
    [agent |-> a, model |-> m, uses_per_month |-> u, tokens_per_use |-> t,
     total_tokens |-> u * t]

IsDefaultConfig(c, config, am) ==
    /\ c.model = DefaultModel(config, am)
    /\ c.uses_per_month = config.default_uses_per_month
    /\ c.tokens_per_use = config.tokens_per_use

NumOverridden(configs, am) ==
    Cardinality({i \in 1..Len(configs) :
                    ~IsDefaultConfig(configs[i], AGENT_USAGE_PATTERNS[i], am)})

UnchangedFetch == UNCHANGED <<response, idx, pricing_data, available_models, notice, raised>>

\* lines 140-145
NumTeachersInput ==
    /\ pc = "fetched"
    /\ \E n \in 1..MaxTeachers : num_teachers' = n
    /\ agent_configs' = <<>>
    /\ pc' = "configure"
    /\ UnchangedFetch
    /\ UNCHANGED <<default_model_idx, total_cost_per_teacher, breakdown,
                   total_cost_all_teachers>>

\* lines 146-172, one iteration
ConfigureAgent ==
    /\ pc = "configure"
    /\ Len(agent_configs) < NumAgents
    /\ LET config == AGENT_USAGE_PATTERNS[Len(agent_configs) + 1]
       IN /\ default_model_idx' = DefaultModelIdx(config, available_models)
          /\ \E model \in SelectboxValues(config, available_models),
                uses_per_month \in NumberInputValues(1, config.default_uses_per_month, UserUses),
                tokens_per_use \in NumberInputValues(10, config.tokens_per_use, UserTokens) :
                agent_configs' =
                    Append(agent_configs,
                           AgentConfig(config.agent, model, uses_per_month, tokens_per_use))
          /\ NumOverridden(agent_configs', available_models) <= MaxOverrides
    /\ UnchangedFetch
    /\ UNCHANGED <<pc, num_teachers, total_cost_per_teacher, breakdown,
                   total_cost_all_teachers>>

----------------------------------------------------------------------------
(* The pricing breakdown loop and the total *)

\* pricing_data.get(model, zero prices), which never raises
PriceOf_default(pd, model) ==
    IF model \in DOMAIN pd
    THEN [found |-> TRUE, prompt |-> pd[model].prompt, completion |-> pd[model].completion]
    ELSE [found |-> TRUE, prompt |-> 0, completion |-> 0]

\* pricing_data[model]; found = FALSE is the KeyError of the subscript
PriceOf(pd, model) ==
    IF model \in DOMAIN pd
    THEN [found |-> TRUE, prompt |-> pd[model].prompt, completion |-> pd[model].completion]
    ELSE [found |-> FALSE, prompt |-> 0, completion |-> 0]

\* a 60% prompt share
PromptTokens_sixty(total_tokens) == total_tokens * 6

\* total_tokens * 0.7 and total_tokens * 0.3, in tenths of a token
PromptTokens(total_tokens) == total_tokens * 7
CompletionTokens(total_tokens) == total_tokens * 3

\* "=" in place of "+="
Accumulate_assign(total, cost) == cost

\* total_cost_per_teacher += total_cost
Accumulate(total, cost) == total + cost

\* lines 178-192 for one agent whose model is priced
CostBreakdown(c, price) ==
    LET prompt_tokens == PromptTokens(c.total_tokens)
        completion_tokens == CompletionTokens(c.total_tokens)
        prompt_cost == prompt_tokens * price.prompt
        completion_cost == completion_tokens * price.completion
    IN [agent |-> c.agent, uses_per_month |-> c.uses_per_month,
        tokens_per_use |-> c.tokens_per_use, total_tokens |-> c.total_tokens,
        prompt_tokens |-> prompt_tokens, completion_tokens |-> completion_tokens,
        prompt_cost |-> prompt_cost, completion_cost |-> completion_cost,
        total_cost |-> prompt_cost + completion_cost]

\* lines 175-176
BeginPricing ==
    /\ pc = "configure"
    /\ Len(agent_configs) = NumAgents
    /\ total_cost_per_teacher' = 0
    /\ breakdown' = <<>>
    /\ pc' = "pricing"
    /\ UnchangedFetch
    /\ UNCHANGED <<num_teachers, agent_configs, default_model_idx, total_cost_all_teachers>>

\* lines 177-193, one iteration
CostAgent ==
    /\ pc = "pricing"
    /\ Len(breakdown) < Len(agent_configs)
    /\ LET c == agent_configs[Len(breakdown) + 1]
           price == PriceOf(pricing_data, c.model)
       IN IF price.found
          THEN /\ breakdown' = Append(breakdown, CostBreakdown(c, price))
               /\ total_cost_per_teacher' =
                     Accumulate(total_cost_per_teacher, CostBreakdown(c, price).total_cost)
               /\ UNCHANGED <<pc, raised>>
          ELSE /\ pc' = "crashed"
               /\ raised' = "KeyError"
               /\ UNCHANGED <<breakdown, total_cost_per_teacher>>
    /\ UNCHANGED <<response, idx, pricing_data, available_models, notice>>
    /\ UNCHANGED <<num_teachers, agent_configs, default_model_idx, total_cost_all_teachers>>

\* lines 195-200
TotalCost ==
    /\ pc = "pricing"
    /\ Len(breakdown) = Len(agent_configs)
    /\ total_cost_all_teachers' = total_cost_per_teacher * num_teachers
    /\ pc' = "done"
    /\ UnchangedFetch
    /\ UNCHANGED <<num_teachers, agent_configs, default_model_idx,
                   total_cost_per_teacher, breakdown>>

----------------------------------------------------------------------------
(* The whole script; Streamlit runs it again from the top on every interaction *)

PipelineSlugs == {"qwen/qwen3-8b", "mistralai/mistral-7b"}

PipelineDescriptors ==
    {Descriptor("object", s, "object", "object", "0", "0") : s \in PipelineSlugs}
    \cup {Descriptor("object", s, "object", "object", "0.00003", "0.00006") : s \in PipelineSlugs}
    \cup {Descriptor("object", s, "object", "object", "abc", "0") : s \in PipelineSlugs}
    \cup {Descriptor("object", s, "absent", "absent", Absent, Absent) : s \in PipelineSlugs}

PipelineResponses == ResponsesOver(PipelineDescriptors)

GetPipelineCatalog == HttpGet(PipelineResponses)

\* a widget interaction: Streamlit runs the script again from the top
Rerun ==
    /\ pc \in {"done", "crashed"}
    /\ pc' = "start"
    /\ response' = NoResponse
    /\ idx' = 0
    /\ pricing_data' = EmptyDict
    /\ available_models' = <<>>
    /\ notice' = "none"
    /\ raised' = "none"
    /\ num_teachers' = 0
    /\ agent_configs' = <<>>
    /\ default_model_idx' = 0
    /\ total_cost_per_teacher' = 0
    /\ breakdown' = <<>>
    /\ total_cost_all_teachers' = 0

Next ==
    \/ GetPipelineCatalog
    \/ FetchRequest
    \/ FetchModel
    \/ FetchFinish
    \/ NumTeachersInput
    \/ ConfigureAgent
    \/ BeginPricing
    \/ CostAgent
    \/ TotalCost
    \/ Rerun

Spec == Init /\ [][Next]_vars

----------------------------------------------------------------------------
(* The pricing breakdown loop as computeCosts(priceMapping, agentConfigs,     *)
(* numTeachers): its inputs are drawn freely, so that an agent's model may be *)
(* missing from the mapping.                                                  *)

CostModels == {"google/gemma-2-9b", "openai/gpt-4", "ghost/model"}

CostConfigs ==
    {cs \in [1..NumAgents -> CostModels] : TRUE}

InitCost ==
    /\ pc = "configure"
    /\ response = NoResponse
    /\ idx = 0
    /\ pricing_data = FallbackPricing
    /\ available_models = FallbackModels
    /\ notice = "error_fetch_failed"
    /\ raised = "none"
    /\ num_teachers \in 1..MaxTeachers
    /\ \E cs \in CostConfigs :
          agent_configs =
              [i \in 1..NumAgents |->
                  AgentConfig(AGENT_USAGE_PATTERNS[i].agent, cs[i],
                              AGENT_USAGE_PATTERNS[i].default_uses_per_month,
                              AGENT_USAGE_PATTERNS[i].tokens_per_use)]
    /\ default_model_idx = 0
    /\ total_cost_per_teacher = 0
    /\ breakdown = <<>>
    /\ total_cost_all_teachers = 0

NextCost == BeginPricing \/ CostAgent \/ TotalCost

SpecCost == InitCost /\ [][NextCost]_vars

----------------------------------------------------------------------------
(* Properties of fetch_pricing_data, checked under SpecFetch *)

IsFallback(pd, am) == pd = FallbackPricing /\ am = FallbackModels

\* price fields float() rejects, and price fields the code reads as a number
NonNumericField(f) == f = "abc"
NumericField(f) == f \in {Absent, "", "0", "0.00003", "0.00006", "-0.00001"}

HasPricing(d) ==
    d.kind = "object" /\ d.endpoint = "object" /\ d.pricing \in {"absent", "object"}

NonNumericPrice(d) ==
    HasPricing(d) /\ (NonNumericField(d.prompt) \/ NonNumericField(d.completion))

ValidDescriptor(d) ==
    HasPricing(d) /\ NumericField(d.prompt) /\ NumericField(d.completion)

SkippedDescriptor(d) ==
    d.kind = "object" /\ (d.endpoint \in {"absent", "null", "empty"} \/ NonNumericPrice(d))

ZeroPriced(d) ==
    d.kind = "object" /\ d.endpoint = "object" /\ d.pricing = "object"
    /\ d.prompt = "0" /\ d.completion = "0"

Returning == pc \in {"fetch", "models_loop"} /\ pc' = "fetched"

\* C1: fetch_pricing_data never raises; every failure outcome of the GET or of the
\* body's structure returns the fallback pair.
C1_NeverRaises ==
    /\ raised = "none"
    /\ (pc = "fetched" /\ notice # "success") => IsFallback(pricing_data, available_models)

\* C2: a successful GET whose "data" holds no valid model (empty list, or every
\* descriptor skipped) returns exactly the fallback table and its six keys, and
\* nothing of the live response.
C2_ZeroValidIsFallback ==
    [][(/\ Returning
        /\ response.outcome = "ok" /\ response.top = "object" /\ response.data = "list"
        /\ \A i \in 1..Len(response.models) : SkippedDescriptor(response.models[i]))
       => /\ IsFallback(pricing_data', available_models')
          /\ Cardinality(DOMAIN pricing_data') = 6
          /\ Len(available_models') = 6
          /\ \A i \in 1..6 : available_models'[i] \in DOMAIN pricing_data'
          /\ \A i \in 1..Len(response.models) :
                SlugOf(response.models[i]) \notin DOMAIN pricing_data'
          /\ notice' \in {"error_no_models", "warning_no_valid_pricing"}]_vars

C2_Witness ==
    /\ pc = "fetched"
    /\ notice = "warning_no_valid_pricing"
    /\ IsFallback(pricing_data, available_models)

\* C3: a descriptor with a non-numeric prompt or completion price adds nothing to
\* the mapping or to the available-model list, and the loop goes on to the next
\* descriptor; a response holding such a descriptor and valid ones returns the
\* valid ones.
C3_NonNumericSkipped ==
    [][/\ (/\ pc = "models_loop" /\ idx <= Len(response.models)
           /\ NonNumericPrice(response.models[idx]))
          => /\ pricing_data' = pricing_data
             /\ available_models' = available_models
             /\ pc' = "models_loop" /\ idx' = idx + 1 /\ raised' = "none"
       /\ (/\ pc = "models_loop" /\ idx > Len(response.models)
           /\ \E i \in 1..Len(response.models) : ValidDescriptor(response.models[i]))
          => /\ pc' = "fetched" /\ notice' = "success"
             /\ Len(available_models') =
                   Cardinality({i \in 1..Len(response.models) :
                                   ValidDescriptor(response.models[i])})
             /\ \A i \in 1..Len(response.models) :
                   ValidDescriptor(response.models[i])
                   => SlugOf(response.models[i]) \in DOMAIN pricing_data']_vars

C3_Witness ==
    /\ pc = "models_loop" /\ idx = 3
    /\ NonNumericPrice(response.models[1])
    /\ ValidDescriptor(response.models[2])
    /\ available_models = <<SlugOf(response.models[2])>>
    /\ DOMAIN pricing_data = {SlugOf(response.models[2])}

\* C8: a descriptor priced "0"/"0" enters the mapping as 0/0 and the
\* available-model list, and a response with such a descriptor returns the live
\* pair, not the fallback.
C8_ZeroPricedIncluded ==
    [][/\ (/\ pc = "models_loop" /\ idx <= Len(response.models)
           /\ ZeroPriced(response.models[idx]))
          => /\ SlugOf(response.models[idx]) \in DOMAIN pricing_data'
             /\ pricing_data'[SlugOf(response.models[idx])] = [prompt |-> 0, completion |-> 0]
             /\ available_models' = Append(available_models, SlugOf(response.models[idx]))
             /\ pc' = "models_loop" /\ raised' = "none"
       /\ (/\ pc = "models_loop" /\ idx > Len(response.models)
           /\ \E i \in 1..Len(response.models) : ZeroPriced(response.models[i]))
          => /\ pc' = "fetched" /\ notice' = "success"
             /\ pricing_data' = pricing_data /\ available_models' = available_models
             /\ ~IsFallback(pricing_data', available_models')]_vars

C8_Witness ==
    /\ pc = "fetched" /\ notice = "success"
    /\ pricing_data = ("qwen/qwen3-8b" :> [prompt |-> 0, completion |-> 0])
    /\ available_models = <<"qwen/qwen3-8b">>

\* C10: every entry of the mapping has a non-negative prompt price and a
\* non-negative completion price.
C10_NonNegativePrices ==
    \A s \in DOMAIN pricing_data :
        pricing_data[s].prompt >= 0 /\ pricing_data[s].completion >= 0

----------------------------------------------------------------------------
(* Properties of the form and of the cost computation *)

RECURSIVE SumTotalCost(_)
SumTotalCost(bs) ==
    IF bs = <<>> THEN 0 ELSE bs[1].total_cost + SumTotalCost(Tail(bs))

\* C4, checked under SpecCost: when the model of the agent whose cost is computed
\* next is not a key of the price mapping, the computation ends in an error
\* (KeyError); no breakdown is produced for that agent, nothing is added to
\* total_cost_per_teacher, and no total is computed afterwards.
C4_ModelNotFoundIsError ==
    [][/\ (/\ pc = "pricing" /\ Len(breakdown) < Len(agent_configs)
           /\ agent_configs[Len(breakdown) + 1].model \notin DOMAIN pricing_data)
          => /\ pc' = "crashed" /\ raised' = "KeyError"
             /\ breakdown' = breakdown
             /\ total_cost_per_teacher' = total_cost_per_teacher
             /\ total_cost_all_teachers' = total_cost_all_teachers
       /\ pc = "crashed" => UNCHANGED vars
       /\ \A i \in 1..Len(breakdown') :
             agent_configs'[i].model \in DOMAIN pricing_data']_vars

C4_Witness ==
    /\ pc = "crashed" /\ raised = "KeyError"
    /\ Len(breakdown) = 2
    /\ agent_configs[3].model = "ghost/model"
    /\ total_cost_per_teacher = SumTotalCost(breakdown)
    /\ total_cost_per_teacher > 0

\* C5: every agent breakdown has promptTokens = 0.7 x totalTokens, completionTokens
\* = 0.3 x totalTokens, their sum = totalTokens, and totalCost = promptTokens x
\* promptPrice + completionTokens x completionPrice, with totalTokens = usesPerMonth
\* x tokensPerUse of the agent's inputs and the prices of the agent's model; a 0/0
\* model costs 0 and 1000 tokens at 0.00003/0.00006 cost 0.039 (7800000 units).
C5_BreakdownArithmetic ==
    \A i \in 1..Len(breakdown) :
        LET c == agent_configs[i]
            b == breakdown[i]
            total_tokens == c.uses_per_month * c.tokens_per_use
            price == pricing_data[c.model]
        IN /\ c.uses_per_month >= 1 /\ c.tokens_per_use >= 10
           /\ b.agent = c.agent
           /\ b.total_tokens = total_tokens
           /\ b.prompt_tokens * 10 = 7 * (total_tokens * 10)
           /\ b.completion_tokens * 10 = 3 * (total_tokens * 10)
           /\ b.prompt_tokens + b.completion_tokens = total_tokens * 10
           /\ b.total_cost = b.prompt_tokens * price.prompt
                             + b.completion_tokens * price.completion
           /\ (price.prompt = 0 /\ price.completion = 0) => b.total_cost = 0
           /\ (total_tokens = 1000 /\ price.prompt = 600 /\ price.completion = 1200)
                 => b.total_cost = 7800000

C5_Witness ==
    /\ pc = "done"
    /\ \E i \in 1..Len(breakdown) :
          /\ breakdown[i].total_tokens = 1000 /\ breakdown[i].total_cost = 7800000
    /\ \E i \in 1..Len(breakdown) :
          /\ breakdown[i].agent = "Feedback Agent" /\ breakdown[i].total_tokens = 4000
          /\ breakdown[i].total_cost = 0

\* C6: after the cost loop, total_cost_per_teacher is the sum of total_cost over
\* exactly the 7 agent breakdowns, one per agent, and total_cost_all_teachers is
\* total_cost_per_teacher x num_teachers, num_teachers >= 1.
C6_Totals ==
    pc = "done" =>
        /\ Len(breakdown) = 7
        /\ \A i \in 1..7 : breakdown[i].agent = AGENT_USAGE_PATTERNS[i].agent
        /\ total_cost_per_teacher = SumTotalCost(breakdown)
        /\ num_teachers >= 1
        /\ total_cost_all_teachers = total_cost_per_teacher * num_teachers

C6_Witness ==
    /\ pc = "done"
    /\ num_teachers = 2
    /\ Cardinality({i \in 1..Len(breakdown) : breakdown[i].total_cost > 0}) >= 2
    /\ total_cost_all_teachers > total_cost_per_teacher

\* C7: the default selection of the agent configured last is the preset's
\* default_model when that id is in the available-model list, otherwise the entry
\* at index 0; it is always an index of the (non-empty) list.
C7_DefaultSelection ==
    (pc \in {"configure", "pricing", "done"} /\ agent_configs # <<>>) =>
        LET config == AGENT_USAGE_PATTERNS[Len(agent_configs)]
        IN /\ available_models # <<>>
           /\ default_model_idx \in 0..(Len(available_models) - 1)
           /\ IF \E i \in 1..Len(available_models) : available_models[i] = config.default_model
              THEN available_models[default_model_idx + 1] = config.default_model
              ELSE default_model_idx = 0

C7_Witness ==
    /\ pc = "configure"
    /\ Len(agent_configs) = 3
    /\ available_models = <<"mistralai/mistral-7b", "qwen/qwen3-8b">>
    /\ default_model_idx = 1

\* C9: whatever the pricing outcome and the selections, every AgentConfig's model
\* is a key of the price mapping, and the lookup of the cost loop never fails.
C9_ModelAlwaysPriced ==
    /\ raised # "KeyError"
    /\ \A i \in 1..Len(agent_configs) : agent_configs[i].model \in DOMAIN pricing_data

C9_Witness ==
    /\ pc = "done"
    /\ notice = "success"
    /\ available_models = <<"qwen/qwen3-8b", "qwen/qwen3-8b">>
    /\ Len(breakdown) = 7
    /\ \A i \in 1..7 : agent_configs[i].model = "qwen/qwen3-8b"

=============================================================================
